---- MODULE Spec2Model ----
(***************************************************************************)
(* Model of scripts/generate-security-report.py: SecurityReportGenerator   *)
(* and main().  One run of main() is one behaviour: load_scan_results      *)
(* walks the scan-result files in the fixed loader order, every extracted  *)
(* issue goes through _add_finding, then generate_reports derives the      *)
(* recommendations and the compliance status and writes the outputs.       *)
(*                                                                         *)
(* The file system is the input.  A file's content is chosen when the run  *)
(* opens the file (each file is opened at most once) and is remembered in  *)
(* `files`, so that what a file contributes can be compared with what it   *)
(* holds.                                                                  *)
(***************************************************************************)
EXTENDS Integers, Sequences, FiniteSets, TLC

\* Size of the input of one run: one unit per existing file plus one unit
\* per entry listed in a parsed file.
MaxInput == 3

(***************************************************************************)
(* JSON values                                                             *)
(***************************************************************************)
\* JSON null (Python None) as the value of a key.
Null == "<None>"
\* Filler for the value of a key that the JSON object does not have.
Missing == "<missing>"
\* report_data["compliance_status"] == {}: the key has not been set.
Unset == "<unset>"

\* dict.get(key, default)
Get(e, key, default) == IF key \in e.keys THEN e[key] ELSE default

\* str.upper() on the severity texts of the model.
Upper(s) ==
  CASE s = "critical" -> "CRITICAL"
    [] s = "high"     -> "HIGH"
    [] s = "medium"   -> "MEDIUM"
    [] s = "low"      -> "LOW"
    [] s = "error"    -> "ERROR"
    [] s = "warning"  -> "WARNING"
    [] OTHER          -> s

\* str.lower() on the titles of the model.
Lower(s) ==
  CASE s = "SQL injection" -> "sql injection"
    [] s = "Data exposure" -> "data exposure"
    [] s = "Unknown"       -> "unknown"
    [] s = "Unknown license for left-pad" -> "unknown license for left-pad"
    [] OTHER               -> s

\* needle in haystack, for the needles the program looks for.
Contains(haystack, needle) ==
  CASE needle = "Infrastructure" -> haystack \in {"Infrastructure Security"}
    [] needle = "Kubernetes"     -> haystack \in {"Kubernetes Security"}
    [] needle = "data"           -> haystack \in {"data exposure"}
    [] OTHER                     -> FALSE

(***************************************************************************)
(* The scan-result files and the loaders                                   *)
(***************************************************************************)
LoaderOrder ==
  << "_load_trivy_results", "_load_snyk_results", "_load_npm_audit_results",
     "_load_secrets_results", "_load_infrastructure_results",
     "_load_kubernetes_results", "_load_compliance_results",
     "_load_sast_results", "_load_license_results" >>

LoaderFiles(l) ==
  CASE l = "_load_trivy_results"          -> << "trivy-results.sarif" >>
    [] l = "_load_snyk_results"           -> << "snyk-container-results.json",
                                                "snyk-dependency-results.json" >>
    [] l = "_load_npm_audit_results"      -> << "npm-audit-results.json" >>
    [] l = "_load_secrets_results"        -> << >>
    [] l = "_load_infrastructure_results" -> << "checkov-results.json",
                                                "tfsec-results.json",
                                                "terrascan-results.json" >>
    [] l = "_load_kubernetes_results"     -> << "polaris-results.json",
                                                "kube-bench-results.json" >>
    [] l = "_load_compliance_results"     -> << "bandit-results.json",
                                                "semgrep-results.json" >>
    [] l = "_load_sast_results"           -> << "eslint-security-results.json" >>
    [] l = "_load_license_results"        -> << "license-checker-results.json" >>

RECURSIVE Flatten(_, _)
Flatten(ls, i) ==
  IF i > Len(ls) THEN << >> ELSE LoaderFiles(ls[i]) \o Flatten(ls, i + 1)

\* All files, in the order in which one run looks at them.
FileOrder == Flatten(LoaderOrder, 1)
Files == { FileOrder[i] : i \in 1..Len(FileOrder) }

Category(f) ==
  CASE f = "trivy-results.sarif" -> "Container Vulnerability"
    [] f \in {"snyk-container-results.json", "snyk-dependency-results.json",
              "npm-audit-results.json"} -> "Dependency Vulnerability"
    [] f \in {"checkov-results.json", "tfsec-results.json",
              "terrascan-results.json"} -> "Infrastructure Security"
    [] f \in {"polaris-results.json", "kube-bench-results.json"}
         -> "Kubernetes Security"
    [] f \in {"bandit-results.json", "semgrep-results.json"} -> "Code Security"
    [] f = "eslint-security-results.json" -> "SAST"
    [] f = "license-checker-results.json" -> "License Compliance"

Tool(f) ==
  CASE f = "trivy-results.sarif" -> "Trivy"
    [] f \in {"snyk-container-results.json", "snyk-dependency-results.json"}
         -> "Snyk"
    [] f = "npm-audit-results.json"  -> "npm audit"
    [] f = "checkov-results.json"    -> "Checkov"
    [] f = "tfsec-results.json"      -> "Tfsec"
    [] f = "terrascan-results.json"  -> "Terrascan"
    [] f = "polaris-results.json"    -> "Polaris"
    [] f = "kube-bench-results.json" -> "Kube-bench"
    [] f = "bandit-results.json"     -> "Bandit"
    [] f = "semgrep-results.json"    -> "Semgrep"
    [] f = "eslint-security-results.json" -> "ESLint Security"
    [] f = "license-checker-results.json" -> "license-checker"

\* Files whose loader reads a severity text and upper-cases it.
TextFiles ==
  { "trivy-results.sarif", "snyk-container-results.json",
    "snyk-dependency-results.json", "npm-audit-results.json",
    "checkov-results.json", "tfsec-results.json", "terrascan-results.json",
    "bandit-results.json", "semgrep-results.json" }
\* Files of pass/fail checks without a severity.
PostureFiles == { "polaris-results.json", "kube-bench-results.json" }

\* The default of the severity key in each text loader.
DefaultSeverity(f) ==
  CASE f = "trivy-results.sarif" -> "warning"
    [] f \in {"snyk-container-results.json", "snyk-dependency-results.json",
              "npm-audit-results.json"} -> "medium"
    [] OTHER -> "MEDIUM"

(***************************************************************************)
(* Entries of a parsed file.  `keys` are the keys the JSON object has; an  *)
(* entry with obj = FALSE is a JSON value that is not an object (a number, *)
(* a string, null) where the loader expects one.  "severity" and "title"   *)
(* stand for each tool's own key names (level / message.text, severity /   *)
(* title, issue_severity / issue_text, ...); "outcome" for result, status  *)
(* and license.                                                            *)
(***************************************************************************)
Entry(ks, sev, title, outcome) ==
  [obj |-> TRUE, keys |-> ks, severity |-> sev, title |-> title,
   outcome |-> outcome]
NotAnObject(sev) ==
  [obj |-> FALSE, keys |-> {}, severity |-> sev, title |-> Missing,
   outcome |-> Missing]

TextEntries ==
  { Entry({"severity", "title"}, s, "SQL injection", Missing) :
      s \in {"critical", "high", "medium", "low", "error"} }
  \cup { Entry({"severity", "title"}, "high", Null, Missing),
         Entry({"title"}, Missing, "Data exposure", Missing),
         Entry({}, Missing, Missing, Missing),
         Entry({"severity", "title"}, Null, "SQL injection", Missing) }

EslintEntries ==
  { Entry({"severity", "title"}, n, "SQL injection", Missing) : n \in 0..2 }
  \cup { Entry({}, 0, Missing, Missing), NotAnObject(0) }

PostureEntries ==
  { Entry({"outcome", "title"}, Missing, "SQL injection", "FAIL"),
    Entry({"outcome", "title"}, Missing, "SQL injection", "PASS"),
    Entry({"outcome", "title"}, Missing, Null, "FAIL"),
    NotAnObject(Missing) }

LicenseEntries ==
  { Entry({"outcome"}, Missing, Missing, "MIT"),
    Entry({"outcome"}, Missing, Missing, "UNKNOWN"),
    Entry({}, Missing, Missing, Missing),
    NotAnObject(Missing) }

Entries(f) ==
  CASE f \in TextFiles    -> TextEntries
    [] f \in PostureFiles -> PostureEntries
    [] f = "eslint-security-results.json" -> EslintEntries
    [] f = "license-checker-results.json" -> LicenseEntries

\* What a file can be: not there, there but json.load (or the walk down to
\* the list of entries) raises, or parsed into a list of entries.
NotOpened  == [state |-> "not opened", entries |-> << >>]
Absent     == [state |-> "absent", entries |-> << >>]
Unparsable == [state |-> "unparsable", entries |-> << >>]
Parsed(es) == [state |-> "parsed", entries |-> es]

Contents(f, room) ==
  {Absent} \cup
  (IF room < 1 THEN {}
   ELSE {Unparsable} \cup
        { Parsed(es) : es \in UNION { [1..n -> Entries(f)] : n \in 0..(room - 1) } })

Size(c) == IF c.state \in {"unparsable", "parsed"} THEN 1 + Len(c.entries) ELSE 0

RECURSIVE InputSize(_, _)
InputSize(fs, i) ==
  IF i > Len(FileOrder) THEN 0 ELSE Size(fs[FileOrder[i]]) + InputSize(fs, i + 1)

(***************************************************************************)
(* Normalisation of one entry into a Finding                               *)
(***************************************************************************)
MapEslintSeverity(severity) ==
  IF severity = 2 THEN "HIGH"
  ELSE IF severity = 1 THEN "MEDIUM"
  ELSE "LOW"

\* The entry makes the loader raise: .get on a value that is not an object,
\* `in` on a value that is no container, or .upper() on None.
Raises(f, e) ==
  \/ ~e.obj
  \/ f \in TextFiles /\ Get(e, "severity", DefaultSeverity(f)) = Null

\* The entry is turned into a Finding: every entry of a vulnerability or
\* linter file, the failing checks of a posture file, the packages without
\* a known license.
Emits(f, e) ==
  CASE f \in PostureFiles -> Get(e, "outcome", Missing) = "FAIL"
    [] f = "license-checker-results.json" ->
         "outcome" \notin e.keys \/ e.outcome = "UNKNOWN"
    [] OTHER -> TRUE

Severity(f, e) ==
  CASE f \in TextFiles -> Upper(Get(e, "severity", DefaultSeverity(f)))
    [] f = "eslint-security-results.json" ->
         MapEslintSeverity(Get(e, "severity", 1))
    [] OTHER -> "MEDIUM"

Title(f, e) ==
  IF f = "license-checker-results.json"
  THEN "Unknown license for left-pad"
  ELSE Get(e, "title", "Unknown")

\* The dict handed to _add_finding.  `src` is not a key of the program's
\* Finding: it records the file the Finding was read from.
Finding(f, e) ==
  [title |-> Title(f, e), severity |-> Severity(f, e),
   category |-> Category(f), tool |-> Tool(f), src |-> f]

(***************************************************************************)
(* The report model                                                        *)
(***************************************************************************)
Standards == {"OWASP Top 10", "CIS Benchmarks", "SOC 2", "GDPR"}

InitReportData ==
  [summary |-> [critical |-> 0, high |-> 0, medium |-> 0, low |-> 0],
   findings |-> << >>,
   critical_findings |-> << >>,
   high_findings |-> << >>,
   medium_findings |-> << >>,
   low_findings |-> << >>,
   recommendations |-> << >>,
   compliance_status |->
     [overall_status |-> Unset, standards |-> [s \in Standards |-> Unset]]]

\* _add_finding with the HIGH branch counting under "medium".
AddFindingHighAsMedium(rd, finding) ==
  LET r1 == [rd EXCEPT !.findings = Append(@, finding)]
      severity == finding.severity
  IN  IF severity = "CRITICAL"
      THEN [r1 EXCEPT !.critical_findings = Append(@, finding),
                      !.summary.critical = @ + 1]
      ELSE IF severity = "HIGH"
      THEN [r1 EXCEPT !.high_findings = Append(@, finding),
                      !.summary.medium = @ + 1]
      ELSE IF severity = "MEDIUM"
      THEN [r1 EXCEPT !.medium_findings = Append(@, finding),
                      !.summary.medium = @ + 1]
      ELSE IF severity = "LOW"
      THEN [r1 EXCEPT !.low_findings = Append(@, finding),
                      !.summary.low = @ + 1]
      ELSE r1

\* _add_finding assigning [finding] to the per-severity list instead of
\* appending to it.
AddFindingOverwrites(rd, finding) ==
  LET r1 == [rd EXCEPT !.findings = Append(@, finding)]
      severity == finding.severity
  IN  IF severity = "CRITICAL"
      THEN [r1 EXCEPT !.critical_findings = << finding >>,
                      !.summary.critical = @ + 1]
      ELSE IF severity = "HIGH"
      THEN [r1 EXCEPT !.high_findings = << finding >>,
                      !.summary.high = @ + 1]
      ELSE IF severity = "MEDIUM"
      THEN [r1 EXCEPT !.medium_findings = << finding >>,
                      !.summary.medium = @ + 1]
      ELSE IF severity = "LOW"
      THEN [r1 EXCEPT !.low_findings = << finding >>,
                      !.summary.low = @ + 1]
      ELSE r1

\* _add_finding with list.insert(0, ...) for the per-severity lists.
AddFindingPrepends(rd, finding) ==
  LET r1 == [rd EXCEPT !.findings = Append(@, finding)]
      severity == finding.severity
  IN  IF severity = "CRITICAL"
      THEN [r1 EXCEPT !.critical_findings = << finding >> \o @,
                      !.summary.critical = @ + 1]
      ELSE IF severity = "HIGH"
      THEN [r1 EXCEPT !.high_findings = << finding >> \o @,
                      !.summary.high = @ + 1]
      ELSE IF severity = "MEDIUM"
      THEN [r1 EXCEPT !.medium_findings = << finding >> \o @,
                      !.summary.medium = @ + 1]
      ELSE IF severity = "LOW"
      THEN [r1 EXCEPT !.low_findings = << finding >> \o @,
                      !.summary.low = @ + 1]
      ELSE r1

AddFinding(rd, finding) ==
  LET r1 == [rd EXCEPT !.findings = Append(@, finding)]
      severity == finding.severity
  IN  IF severity = "CRITICAL"
      THEN [r1 EXCEPT !.critical_findings = Append(@, finding),
                      !.summary.critical = @ + 1]
      ELSE IF severity = "HIGH"
      THEN [r1 EXCEPT !.high_findings = Append(@, finding),
                      !.summary.high = @ + 1]
      ELSE IF severity = "MEDIUM"
      THEN [r1 EXCEPT !.medium_findings = Append(@, finding),
                      !.summary.medium = @ + 1]
      ELSE IF severity = "LOW"
      THEN [r1 EXCEPT !.low_findings = Append(@, finding),
                      !.summary.low = @ + 1]
      ELSE r1

(***************************************************************************)
(* The derivers                                                            *)
(***************************************************************************)
CriticalRecommendations ==
  << "Immediately address all critical vulnerabilities before deployment",
     "Review and update all dependencies with critical vulnerabilities" >>
HighRecommendations ==
  << "Prioritize fixing high-severity vulnerabilities in the next sprint",
     "Implement additional security controls for high-risk areas" >>
InfrastructureRecommendations ==
  << "Review and update infrastructure security configurations",
     "Implement least-privilege access controls" >>
KubernetesRecommendations ==
  << "Apply Kubernetes security best practices and CIS benchmarks",
     "Enable Pod Security Policies and Network Policies" >>
GeneralRecommendations ==
  << "Implement automated security scanning in CI/CD pipeline",
     "Regular security training for development team",
     "Establish security review process for all code changes",
     "Monitor security advisories for all dependencies",
     "Implement security incident response procedures" >>

\* [f for f in findings if needle in f["category"]]
InCategory(findings, needle) ==
  SelectSeq(findings, LAMBDA f : Contains(f.category, needle))

\* generate_recommendations with the rules chained by elif.
RecommendationsChained(rd) ==
  (IF rd.summary.critical > 0 THEN CriticalRecommendations
   ELSE IF rd.summary.high > 0 THEN HighRecommendations
   ELSE IF InCategory(rd.findings, "Infrastructure") # << >>
   THEN InfrastructureRecommendations
   ELSE IF InCategory(rd.findings, "Kubernetes") # << >>
   THEN KubernetesRecommendations
   ELSE << >>)
  \o GeneralRecommendations

\* generate_recommendations with the critical rule testing >= 0.
RecommendationsCriticalAlways(rd) ==
  (IF rd.summary.critical >= 0 THEN CriticalRecommendations ELSE << >>)
  \o (IF rd.summary.high > 0 THEN HighRecommendations ELSE << >>)
  \o (IF InCategory(rd.findings, "Infrastructure") # << >>
      THEN InfrastructureRecommendations ELSE << >>)
  \o (IF InCategory(rd.findings, "Kubernetes") # << >>
      THEN KubernetesRecommendations ELSE << >>)
  \o GeneralRecommendations

Recommendations(rd) ==
  (IF rd.summary.critical > 0 THEN CriticalRecommendations ELSE << >>)
  \o (IF rd.summary.high > 0 THEN HighRecommendations ELSE << >>)
  \o (IF InCategory(rd.findings, "Infrastructure") # << >>
      THEN InfrastructureRecommendations ELSE << >>)
  \o (IF InCategory(rd.findings, "Kubernetes") # << >>
      THEN KubernetesRecommendations ELSE << >>)
  \o GeneralRecommendations

PassIf(b) == IF b THEN "PASS" ELSE "FAIL"

\* f["title"].lower() raises AttributeError when some title is None.
ComplianceRaises(rd) ==
  \E i \in 1..Len(rd.findings) : rd.findings[i].title = Null

ComplianceStatus(rd) ==
  [overall_status |-> PassIf(rd.summary.critical = 0),
   standards |->
     [s \in Standards |->
        CASE s = "OWASP Top 10"   -> PassIf(rd.summary.critical = 0)
          [] s = "CIS Benchmarks" ->
               PassIf(Len(InCategory(rd.findings, "Kubernetes")) = 0)
          [] s = "SOC 2"          -> PassIf(rd.summary.critical = 0)
          [] s = "GDPR"           ->
               PassIf(Len(SelectSeq(rd.findings,
                        LAMBDA f : Contains(Lower(f.title), "data"))) = 0)]]

(***************************************************************************)
(* State                                                                   *)
(***************************************************************************)
VARIABLES
  pc,           \* where main() is
  order,        \* the order in which load_scan_results calls the loaders
  ldr,          \* load stage: index in `order` of the running loader
  fi,           \* load stage: index of the loader's next (or open) file
  open,         \* load stage: a file is open and its entries are walked
  cur,          \* load stage: the entries of the open file not yet walked
  files,        \* the file system, as far as the run has looked at it
  report_data,  \* SecurityReportGenerator.report_data
  invoked,      \* the loaders load_scan_results has called
  writes,       \* the assignments to report_data's derived fields, in order
  outputs       \* the report files written

vars == << pc, order, ldr, fi, open, cur, files, report_data, invoked, writes, outputs >>

Init ==
  /\ pc = "load_scan_results"
  /\ order = LoaderOrder
  /\ ldr = 0
  /\ fi = 0
  /\ open = FALSE
  /\ cur = << >>
  /\ files = [f \in Files |-> NotOpened]
  /\ report_data = InitReportData
  /\ invoked = {}
  /\ writes = << >>
  /\ outputs = {}

Loader == order[ldr]
File == LoaderFiles(Loader)[fi]

\* The try around the whole loop: an error leaves the loop.
AfterErrorLeavesLoop(l, i) == Len(LoaderFiles(l)) + 1

\* Where a loader goes on after the except clause of a file: the try is
\* inside the loop over the loader's files, so with the next file.
AfterError(l, i) == i + 1

(***************************************************************************)
(* load_scan_results and the loaders                                       *)
(***************************************************************************)
\* load_scan_results: without the scan-results directory no loader runs
\* (and no file under it exists); with it the first loader is called.
LoadScanResults ==
  /\ pc = "load_scan_results"
  /\ \E dirExists \in BOOLEAN :
       IF dirExists
       THEN /\ pc' = "load"
            /\ ldr' = 1
            /\ fi' = 1
            /\ invoked' = {order[1]}
            /\ files' = files
       ELSE /\ pc' = "generate_recommendations"
            /\ files' = [f \in Files |-> Absent]
            /\ UNCHANGED << ldr, fi, invoked >>
  /\ UNCHANGED order
  /\ UNCHANGED << open, cur, report_data, writes, outputs >>

\* The loader has a next file: test that it exists, open and parse it.
\*  - absent: the `if` is false, on to the next file;
\*  - json.load raises: the except clause prints and the loader goes on;
\*  - parsed: the walk over its entries starts (and ends, if it has none).
OpenFile ==
  /\ pc = "load"
  /\ ~open
  /\ fi <= Len(LoaderFiles(Loader))
  /\ \E c \in Contents(File, MaxInput - InputSize(files, 1)) :
       /\ files' = [files EXCEPT ![File] = c]
       /\ CASE c.state = "absent" ->
                 /\ fi' = fi + 1
                 /\ UNCHANGED << open, cur >>
            [] c.state = "unparsable" ->
                 /\ fi' = AfterError(Loader, fi)
                 /\ UNCHANGED << open, cur >>
            [] c.state = "parsed" /\ c.entries = << >> ->
                 /\ fi' = fi + 1
                 /\ UNCHANGED << open, cur >>
            [] c.state = "parsed" /\ c.entries # << >> ->
                 /\ open' = TRUE
                 /\ cur' = c.entries
                 /\ fi' = fi
  /\ UNCHANGED order
  /\ UNCHANGED << pc, ldr, report_data, invoked, writes, outputs >>

\* One iteration of the loop over the entries of the open file: the entry
\* raises (the except clause ends the walk of this file), or it is skipped,
\* or it is normalised and handed to _add_finding.  After the last entry
\* the file is done.
WalkEntry ==
  /\ pc = "load"
  /\ open
  /\ LET e == Head(cur)
     IN  IF Raises(File, e)
         THEN /\ open' = FALSE
              /\ cur' = << >>
              /\ fi' = AfterError(Loader, fi)
              /\ UNCHANGED report_data
         ELSE /\ report_data' =
                   IF Emits(File, e)
                   THEN AddFinding(report_data, Finding(File, e))
                   ELSE report_data
              /\ cur' = Tail(cur)
              /\ open' = (Tail(cur) # << >>)
              /\ fi' = IF Tail(cur) = << >> THEN fi + 1 ELSE fi
  /\ UNCHANGED order
  /\ UNCHANGED << pc, ldr, files, invoked, writes, outputs >>

\* The loader has no file left and returns: load_scan_results calls the
\* next loader, or returns to main after the last one.
LoaderReturns ==
  /\ pc = "load"
  /\ ~open
  /\ fi > Len(LoaderFiles(Loader))
  /\ IF ldr < Len(order)
     THEN /\ ldr' = ldr + 1
          /\ fi' = 1
          /\ invoked' = invoked \cup {order[ldr + 1]}
          /\ pc' = pc
     ELSE /\ pc' = "generate_recommendations"
          /\ ldr' = 0
          /\ fi' = 0
          /\ UNCHANGED invoked
  /\ UNCHANGED order
  /\ UNCHANGED << open, cur, files, report_data, writes, outputs >>

(***************************************************************************)
(* generate_reports                                                        *)
(***************************************************************************)
GenerateRecommendations ==
  /\ pc = "generate_recommendations"
  /\ report_data' =
       [report_data EXCEPT !.recommendations = Recommendations(report_data)]
  /\ writes' = Append(writes, "recommendations")
  /\ pc' = "generate_compliance_status"
  /\ UNCHANGED order
  /\ UNCHANGED << ldr, fi, open, cur, files, invoked, outputs >>

\* The dict is built before it is assigned: an exception while building it
\* leaves compliance_status as it was and, caught nowhere, ends main.
GenerateComplianceStatus ==
  /\ pc = "generate_compliance_status"
  /\ IF ComplianceRaises(report_data)
     THEN /\ pc' = "crashed"
          /\ UNCHANGED << report_data, writes >>
     ELSE /\ report_data' =
               [report_data EXCEPT
                  !.compliance_status = ComplianceStatus(report_data)]
          /\ writes' = Append(writes, "compliance_status")
          /\ pc' = "write_json"
  /\ UNCHANGED order
  /\ UNCHANGED << ldr, fi, open, cur, files, invoked, outputs >>

WriteJson ==
  /\ pc = "write_json"
  /\ outputs' = outputs \cup {"security-report.json"}
  /\ pc' = "write_html"
  /\ UNCHANGED order
  /\ UNCHANGED << ldr, fi, open, cur, files, report_data, invoked, writes >>

GenerateHtmlReport ==
  /\ pc = "write_html"
  /\ outputs' = outputs \cup {"security-report.html"}
  /\ pc' = "write_pdf"
  /\ UNCHANGED order
  /\ UNCHANGED << ldr, fi, open, cur, files, report_data, invoked, writes >>

\* weasyprint is installed or not; without it the PDF is skipped.
GeneratePdfReport ==
  /\ pc = "write_pdf"
  /\ \E available \in BOOLEAN :
       outputs' = IF available
                  THEN outputs \cup {"security-report.pdf"}
                  ELSE outputs
  /\ pc' = "done"
  /\ UNCHANGED order
  /\ UNCHANGED << ldr, fi, open, cur, files, report_data, invoked, writes >>

Next ==
  \/ LoadScanResults
  \/ OpenFile
  \/ WalkEntry
  \/ LoaderReturns
  \/ GenerateRecommendations
  \/ GenerateComplianceStatus
  \/ WriteJson
  \/ GenerateHtmlReport
  \/ GeneratePdfReport

Spec == Init /\ [][Next]_vars

(***************************************************************************)
(* Properties                                                              *)
(***************************************************************************)
SeverityEnum == {"CRITICAL", "HIGH", "MEDIUM", "LOW"}

\* The number of entries of `findings` with the severity.
SeverityCount(sev) ==
  Len(SelectSeq(report_data.findings, LAMBDA f : f.severity = sev))

\* The Findings in `findings` that were read from file f, in order.
Contribution(f) == SelectSeq(report_data.findings, LAMBDA x : x.src = f)

LoadStage == {"load_scan_results", "load"}
RenderStage == {"write_json", "write_html", "write_pdf"}

\* C1: after every _add_finding call, each summary counter equals the
\* number of entries of `findings` with that severity.
C1_SummaryMatchesFindings ==
  /\ report_data.summary.critical = SeverityCount("CRITICAL")
  /\ report_data.summary.high = SeverityCount("HIGH")
  /\ report_data.summary.medium = SeverityCount("MEDIUM")
  /\ report_data.summary.low = SeverityCount("LOW")

\* Two calls have been made, one counted as high and one as low.
C1_Witness ==
  /\ Len(report_data.findings) = 2
  /\ report_data.summary.high = 1
  /\ report_data.summary.low = 1

\* C2: every Finding in `findings` has one of the four severities.
C2_SeverityInEnum ==
  \A i \in 1..Len(report_data.findings) :
    report_data.findings[i].severity \in SeverityEnum

\* C3: a call of _add_finding with a severity outside the four values ends
\* the run with an error instead of going on to a report.
C3_UnknownSeverityFailsFast ==
  [][ ( /\ pc = "load" /\ open
        /\ ~Raises(File, Head(cur))
        /\ Emits(File, Head(cur))
        /\ Severity(File, Head(cur)) \notin SeverityEnum )
      => pc' = "crashed" ]_vars

\* The file is malformed: it cannot be parsed, or one of its entries makes
\* the walk raise.
Malformed(f) ==
  \/ files[f].state = "unparsable"
  \/ /\ files[f].state = "parsed"
     /\ \E i \in 1..Len(files[f].entries) : Raises(f, files[f].entries[i])

\* C4: a malformed file contributes no Finding, as if it were absent.
C4_MalformedContributesNothing ==
  \A f \in Files : Malformed(f) => Contribution(f) = << >>

\* C5: whatever the files hold, the run is not stopped: once loading is
\* over every loader has been called (unless the directory is missing), and
\* the derivations and the JSON and HTML writes all happen.
C5_NoFileStopsTheRun ==
  /\ pc # "crashed"
  /\ pc \notin LoadStage =>
       invoked \in { {}, { LoaderOrder[i] : i \in 1..Len(LoaderOrder) } }
  /\ pc = "done" =>
       /\ writes = << "recommendations", "compliance_status" >>
       /\ {"security-report.json", "security-report.html"} \subseteq outputs

\* What the walk of the entries es of file f hands to _add_finding, from
\* entry i on, when nothing else is read: a function of f's content alone.
RECURSIVE Walked(_, _, _)
Walked(f, es, i) ==
  IF i > Len(es) \/ Raises(f, es[i]) THEN << >>
  ELSE (IF Emits(f, es[i]) THEN << Finding(f, es[i]) >> ELSE << >>)
       \o Walked(f, es, i + 1)

\* The run is through with file f.
Finished(f) ==
  /\ files[f].state # "not opened"
  /\ ~(pc = "load" /\ open /\ File = f)

\* C6: what a file contributes to `findings` (number, content, order) is
\* decided by that file alone, whatever the other files hold, and every
\* file is looked at whatever happened with the files before it.
C6_LoaderIsolation ==
  /\ \A f \in Files :
       Finished(f) => Contribution(f) = Walked(f, files[f].entries, 1)
  /\ (pc \notin LoadStage => \A f \in Files : files[f].state # "not opened")

\* The first Snyk file cannot be parsed and the second one, read by the
\* same loader, has contributed its Finding.
C6_Witness ==
  /\ files["snyk-container-results.json"].state = "unparsable"
  /\ Len(files["snyk-dependency-results.json"].entries) = 1
  /\ Len(Contribution("snyk-dependency-results.json")) = 1
  /\ pc = "generate_recommendations"

NoInputFile == \A f \in Files : files[f].state = "absent"

\* C7: with no input file the report stays empty, the run goes on to its
\* end, and the end result has the five general recommendations and PASS.
C7_NoInputFile ==
  NoInputFile =>
    /\ report_data.summary = [critical |-> 0, high |-> 0, medium |-> 0, low |-> 0]
    /\ report_data.findings = << >>
    /\ report_data.critical_findings = << >>
    /\ report_data.high_findings = << >>
    /\ report_data.medium_findings = << >>
    /\ report_data.low_findings = << >>
    /\ (pc = "done" \/ ENABLED Next)
    /\ pc = "done" =>
         /\ report_data.recommendations = GeneralRecommendations
         /\ report_data.compliance_status.overall_status = "PASS"

\* The scan-results directory is missing and the run is over.
C7_Witness == NoInputFile /\ invoked = {} /\ pc = "done"

\* The place of string s in the sequence r, 0 when it is not there.
IndexOf(r, s) ==
  IF \E i \in 1..Len(r) : r[i] = s
  THEN CHOOSE i \in 1..Len(r) : r[i] = s
  ELSE 0

\* The pair of strings is in r, side by side, iff cond.
PairIff(r, pair, cond) ==
  IF cond
  THEN IndexOf(r, pair[1]) > 0 /\ IndexOf(r, pair[2]) = IndexOf(r, pair[1]) + 1
  ELSE IndexOf(r, pair[1]) = 0 /\ IndexOf(r, pair[2]) = 0

BoolToNat(b) == IF b THEN 1 ELSE 0

C9_ComplianceStatus ==
  pc \in RenderStage \cup {"done", "crashed"} =>
    LET cs  == report_data.compliance_status
        k8s == \E i \in 1..Len(report_data.findings) :
                 report_data.findings[i].category = "Kubernetes Security"
    IN  /\ cs.overall_status =
             (IF report_data.summary.critical > 0 THEN "FAIL" ELSE "PASS")
        /\ (report_data.summary.critical = 0 /\ ~k8s) =>
             /\ cs.standards["OWASP Top 10"] = "PASS"
             /\ cs.standards["SOC 2"] = "PASS"
             /\ cs.standards["CIS Benchmarks"] = "PASS"

\* s is t with entries appended.
Extends(s, t) == Len(s) >= Len(t) /\ SubSeq(s, 1, Len(t)) = t

\* The aggregated part of the report model.
Aggregated(rd) ==
  << rd.summary, rd.findings, rd.critical_findings, rd.high_findings,
     rd.medium_findings, rd.low_findings >>

\* Steps of the load stage only append to the lists and only increment the
\* counters, and no other step touches them.
AggregationOnlyWhileLoading ==
  /\ Aggregated(report_data') # Aggregated(report_data) => pc = "load"
  /\ Extends(report_data'.findings, report_data.findings)
  /\ Extends(report_data'.critical_findings, report_data.critical_findings)
  /\ Extends(report_data'.high_findings, report_data.high_findings)
  /\ Extends(report_data'.medium_findings, report_data.medium_findings)
  /\ Extends(report_data'.low_findings, report_data.low_findings)
  /\ report_data'.summary.critical >= report_data.summary.critical
  /\ report_data'.summary.high >= report_data.summary.high
  /\ report_data'.summary.medium >= report_data.summary.medium
  /\ report_data'.summary.low >= report_data.summary.low

\* The derived fields are written after loading, recommendations first.
DerivedInOrder ==
  /\ writes \in { << >>, << "recommendations" >>,
                  << "recommendations", "compliance_status" >> }
  /\ writes # << >> => pc \notin LoadStage
  /\ report_data'.recommendations # report_data.recommendations =>
       pc = "generate_recommendations"
  /\ report_data'.compliance_status # report_data.compliance_status =>
       pc = "generate_compliance_status"

\* Nothing of the report model changes from the JSON write on.
ReadOnlyWhileRendering ==
  pc \in RenderStage \cup {"done"} => report_data' = report_data

\* Once the derivation is over, each derived field was written once.
DerivedOnce ==
  pc' \notin LoadStage \cup {"generate_recommendations",
                            "generate_compliance_status"} =>
    writes' = << "recommendations", "compliance_status" >>

\* C10: the aggregated fields change only in the load stage and only by
\* appending and incrementing; after loading, recommendations is written
\* once, then compliance_status once; from the JSON write on nothing of
\* the report model changes.
C10_Lifecycle ==
  [][ /\ AggregationOnlyWhileLoading
      /\ DerivedInOrder
      /\ ReadOnlyWhileRendering
      /\ DerivedOnce ]_vars

\* C10 without the demand that the run gets through the derivation.
C10_LifecycleOrderOnly ==
  [][ /\ AggregationOnlyWhileLoading
      /\ DerivedInOrder
      /\ ReadOnlyWhileRendering ]_vars

\* The entries of `findings` with the severity, in the order of `findings`.
WithSeverity(sev) ==
  SelectSeq(report_data.findings, LAMBDA f : f.severity = sev)

\* C11: after every _add_finding call, each per-severity list is the
\* subsequence of `findings` with that severity, in the same order.
C11_ListsAreFilteredViews ==
  /\ report_data.critical_findings = WithSeverity("CRITICAL")
  /\ report_data.high_findings = WithSeverity("HIGH")
  /\ report_data.medium_findings = WithSeverity("MEDIUM")
  /\ report_data.low_findings = WithSeverity("LOW")

\* Two different HIGH Findings have been added, one after the other.
C11_Witness ==
  /\ Len(report_data.high_findings) = 2
  /\ report_data.high_findings[1] # report_data.high_findings[2]
  /\ report_data.findings = report_data.high_findings

\* A SARIF result with level "error".
SarifErrorResult ==
  Entry({"severity", "title"}, "error", "SQL injection", Missing)

\* The input is one SARIF file with the single result, and loading is over.
OnlySarifError ==
  /\ pc \notin LoadStage
  /\ files["trivy-results.sarif"] = Parsed(<< SarifErrorResult >>)
  /\ \A f \in Files \ {"trivy-results.sarif"} : files[f].state = "absent"

\* C12: one SARIF file with a single result of level "error" gives exactly
\* one Finding, with severity ERROR (or MEDIUM, were the level normalised),
\* and exactly one increment of one counter: the counters total 1.
C12_SarifErrorCountedOnce ==
  OnlySarifError =>
    /\ Len(report_data.findings) = 1
    /\ report_data.findings[1].severity \in {"ERROR", "MEDIUM"}
    /\ report_data.summary.critical + report_data.summary.high
         + report_data.summary.medium + report_data.summary.low = 1

(***************************************************************************)
(* The loaders called in another order.  load_scan_results calls them in   *)
(* LoaderOrder; here `order` is a permutation of it, each file is loaded   *)
(* in one step, and the rest of the run is as before.                      *)
(***************************************************************************)
\* Size of the input of one run under the permuted orders (counted as for
\* MaxInput).
MaxPermutedInput == 4

Reverse(seq) == [i \in 1..Len(seq) |-> seq[Len(seq) + 1 - i]]
Rotate(seq, k) == [i \in 1..Len(seq) |-> seq[((i + k - 1) % Len(seq)) + 1]]

PermutedOrders ==
  { LoaderOrder, Reverse(LoaderOrder),
    Rotate(LoaderOrder, 4), Reverse(Rotate(LoaderOrder, 4)) }

\* The entries drawn under the permuted orders: of the text files the
\* critical, high (with and without a title), low and error entries and the
\* one that raises; of the other files all.
PermutedEntries(f) ==
  IF f \in TextFiles
  THEN { e \in TextEntries :
           \/ Raises(f, e)
           \/ /\ e.keys = {"severity", "title"}
              /\ e.severity \in {"critical", "high", "low", "error"} }
  ELSE Entries(f)

\* What a file can be under the permuted orders: not there, or parsed with
\* at least one entry.  (A file that cannot be parsed or lists nothing adds
\* nothing in any order; the entry that raises stands for the failing walk.)
PermutedContents(f, room) ==
  {Absent} \cup
  { Parsed(es) :
      es \in UNION { [1..n -> PermutedEntries(f)] : n \in 1..(room - 1) } }

\* _add_finding for each Finding of the sequence, in order.
RECURSIVE AddAll(_, _, _)
AddAll(rd, fs, i) ==
  IF i > Len(fs) THEN rd ELSE AddAll(AddFinding(rd, fs[i]), fs, i + 1)

\* The walk of the file's entries ends in the except clause.
WalkRaises(f, c) ==
  \/ c.state = "unparsable"
  \/ \E i \in 1..Len(c.entries) : Raises(f, c.entries[i])

\* One file of the running loader, from the exists() test to the end of the
\* walk of its entries or to the except clause.
LoadFile ==
  /\ pc = "load"
  /\ ~open
  /\ fi <= Len(LoaderFiles(Loader))
  /\ \E c \in PermutedContents(File, MaxPermutedInput - InputSize(files, 1)) :
       /\ files' = [files EXCEPT ![File] = c]
       /\ report_data' = AddAll(report_data, Walked(File, c.entries, 1), 1)
       /\ fi' = IF WalkRaises(File, c) THEN AfterError(Loader, fi) ELSE fi + 1
  /\ UNCHANGED << pc, order, ldr, open, cur, invoked, writes, outputs >>

InitPermuted ==
  /\ pc = "load_scan_results"
  /\ order \in PermutedOrders
  /\ ldr = 0
  /\ fi = 0
  /\ open = FALSE
  /\ cur = << >>
  /\ files = [f \in Files |-> NotOpened]
  /\ report_data = InitReportData
  /\ invoked = {}
  /\ writes = << >>
  /\ outputs = {}

NextPermuted ==
  \/ LoadScanResults
  \/ LoadFile
  \/ LoaderReturns
  \/ GenerateRecommendations
  \/ GenerateComplianceStatus
  \/ WriteJson
  \/ GenerateHtmlReport
  \/ GeneratePdfReport

SpecPermuted == InitPermuted /\ [][NextPermuted]_vars

\* What the files give when they are walked in the order of the code.
RECURSIVE WalkedFiles(_, _)
WalkedFiles(fs, i) ==
  IF i > Len(FileOrder) THEN << >>
  ELSE Walked(FileOrder[i], fs[FileOrder[i]].entries, 1) \o WalkedFiles(fs, i + 1)

\* The aggregate of load_scan_results as the code orders the loaders.
CanonicalReport(fs) == AddAll(InitReportData, WalkedFiles(fs, 1), 1)

\* The number of entries of the sequence equal to x.
Count(seq, x) == Cardinality({ i \in 1..Len(seq) : seq[i] = x })

SameMultiset(s, t) ==
  /\ Len(s) = Len(t)
  /\ \A i \in 1..Len(s) : Count(s, s[i]) = Count(t, s[i])

\* In the order of the code, the run's aggregate is CanonicalReport of the
\* files it read: same counters, same lists, same listing order.
CanonicalIsTheCodesOrder ==
  (pc \notin LoadStage /\ order = LoaderOrder) =>
    Aggregated(report_data) = Aggregated(CanonicalReport(files))

\* C13: whatever the order of the loader calls, after loading the four
\* counters are those of the code's order on the same files, each
\* per-severity list (and `findings`) holds the same multiset of Findings,
\* and the recommendations and the compliance result (or its failure) are
\* the same.
C13_OrderIndependent ==
  pc \notin LoadStage =>
    LET c == CanonicalReport(files)
    IN  /\ report_data.summary = c.summary
        /\ SameMultiset(report_data.findings, c.findings)
        /\ SameMultiset(report_data.critical_findings, c.critical_findings)
        /\ SameMultiset(report_data.high_findings, c.high_findings)
        /\ SameMultiset(report_data.medium_findings, c.medium_findings)
        /\ SameMultiset(report_data.low_findings, c.low_findings)
        /\ writes # << >> => report_data.recommendations = Recommendations(c)
        /\ pc \in RenderStage \cup {"done"} =>
             /\ ~ComplianceRaises(c)
             /\ report_data.compliance_status = ComplianceStatus(c)
        /\ pc = "crashed" => ComplianceRaises(c)
        /\ order = LoaderOrder => report_data.findings = c.findings

\* The loaders ran in reverse order, two files of different loaders gave a
\* CRITICAL Finding each, listed the other way round than in the code's
\* order, and the run is over.
C13_Witness ==
  /\ order = Reverse(LoaderOrder)
  /\ pc = "done"
  /\ Len(report_data.critical_findings) = 2
  /\ report_data.critical_findings[1].src # report_data.critical_findings[2].src
  /\ report_data.critical_findings # CanonicalReport(files).critical_findings

====
